---- MODULE Spec2Model ----
(***************************************************************************)
(* OpenAegis: the risk-gated task execution engine.                        *)
(*                                                                         *)
(* The model covers the Task/Plan records and the session state            *)
(* (src/agent/state.py), the plan parser and validator                     *)
(* (src/agent/planner.py), the risk policy and its approval ledgers        *)
(* (src/sentinel/auditor.py), the executor's run loop                      *)
(* (src/agent/executor.py) and the session orchestrator                    *)
(* (src/agent/orchestrator.py).  The Plan Generator, the tool backends,    *)
(* the content filter and the response synthesis are collaborators: what   *)
(* they return is drawn nondeterministically from small sets.              *)
(***************************************************************************)
EXTENDS Integers, Sequences, FiniteSets, TLC

(***************************************************************************)
(* Bounds of the model.                                                    *)
(***************************************************************************)
\* number of process_user_message calls explored
MaxTurns == 2
\* the Plan Generator answers with one of the first NumPlans catalogue plans
NumPlans == 7
\* Config.MAX_RETRIES as configured for the explored sessions (Spec), and the
\* largest configured value explored (SpecRetries)
MAX_RETRIES == 2
\* Config.MAX_ITERATIONS as configured for the explored sessions
MAX_ITERATIONS == 2
\* largest number of tasks in a candidate plan handed to the validator
MaxPlanTasks == 4

\* reset_session is called at most MaxResets times
MaxResets == 1
\* approve_task and deny_task find a pending entry (and decide it) at most
\* MaxDecisions times; calls that find none are not limited
MaxDecisions == 2

(***************************************************************************)
(* RiskLevel (state.py) and the two orders the code uses on it.            *)
(***************************************************************************)
RiskLevel == {"low", "medium", "high", "critical"}

\* Auditor.requires_approval's risk_order table
risk_order == [r \in RiskLevel |->
                 CASE r = "low" -> 0
                   [] r = "medium" -> 1
                   [] r = "high" -> 2
                   [] r = "critical" -> 3]

\* RiskLevel is a str-mixin Enum: the builtin max() compares the member
\* values as strings, "critical" < "high" < "low" < "medium".
StrRank == [r \in RiskLevel |->
              CASE r = "critical" -> 0
                [] r = "high" -> 1
                [] r = "low" -> 2
                [] r = "medium" -> 3]

\* Python's max(a, b): b only when it is strictly greater than a
PyMax(a, b) == IF StrRank[b] > StrRank[a] THEN b ELSE a

TaskStatus == {"pending", "in_progress", "completed", "failed", "blocked"}

None == "None"

(***************************************************************************)
(* Auditor.assess_task_risk.  A tool_input is modelled by the set of the  *)
(* code's patterns its text matches:                                       *)
(*   code_execution: "dangerous_code"  (subprocess / os.system / eval ..)  *)
(*   file_write:     "sensitive_path"  (.env / config / secret / key)      *)
(*   bash_command:   "destructive", "system", "download_exec",             *)
(*                   "file_mod", "read_only"                               *)
(*   keyboard_*:     "sensitive_input"                                     *)
(***************************************************************************)
AssessCodeExecution(input, level) ==
    IF "dangerous_code" \in input THEN "critical" ELSE PyMax(level, "high")

AssessFileWrite(input, level) ==
    IF "sensitive_path" \in input THEN "high" ELSE PyMax(level, "medium")

AssessBashCommand(input, level) ==
    IF "destructive" \in input THEN "critical"
    ELSE IF "system" \in input THEN "high"
    ELSE IF "download_exec" \in input THEN "high"
    ELSE IF "file_mod" \in input THEN "medium"
    ELSE IF "read_only" \in input THEN "low"
    ELSE "medium"

AssessKeyboard(input, level) ==
    IF "sensitive_input" \in input THEN "high" ELSE PyMax(level, "medium")

assess_task_risk(tool, input, level) ==
    CASE tool = "code_execution" -> AssessCodeExecution(input, level)
      [] tool = "file_write" -> AssessFileWrite(input, level)
      [] tool = "web_search" -> PyMax(level, "medium")
      [] tool = "bash_command" -> AssessBashCommand(input, level)
      [] tool = "screenshot" -> PyMax(level, "low")
      [] tool \in {"mouse_move", "mouse_click"} -> PyMax(level, "medium")
      [] tool \in {"keyboard_type", "keyboard_press", "keyboard_hotkey"} ->
            AssessKeyboard(input, level)
      [] OTHER -> level

\* Faulty variant of AuditorRequiresApproval: the levels are compared as the
\* strings they are
AuditorRequiresApproval_StringOrder(task, threshold) ==
    StrRank[assess_task_risk(task.tool, task.tool_input, task.risk_level)]
        >= StrRank[threshold]

\* Auditor.requires_approval under the configured threshold
AuditorRequiresApproval(task, threshold) ==
    risk_order[assess_task_risk(task.tool, task.tool_input, task.risk_level)]
        >= risk_order[threshold]

(***************************************************************************)
(* Planner._parse_plan and Planner._validate_plan.                         *)
(***************************************************************************)
valid_tools == {"document_search", "code_execution", "bash_command",
                "web_search", "file_read", "file_write"}

\* one Task built from a parsed plan item.  gen (the turn whose plan the task
\* belongs to), dispatches (how often execute_plan handed the task to
\* execute_task), calls (how often its backend was invoked) and outcome (how
\* its last backend call ended) are history fields, read by no operation.
ParseItem(item, g) ==
    [id |-> item.id, gen |-> g, tool |-> item.tool, tool_input |-> item.tool_input,
     status |-> "pending", dependencies |-> item.dependencies,
     risk_level |-> item.risk_level, result |-> None, error |-> None,
     requires_approval |-> item.risk_level \in {"high", "critical"},
     approved |-> FALSE, retry_count |-> 0, dispatches |-> 0, calls |-> 0,
     outcome |-> None, sleeps |-> <<>>]

\* _parse_plan: one Task per item, in the order of the JSON array
ParsePlan(items, g) == [i \in 1..Len(items) |-> ParseItem(items[i], g)]

IdsOf(tasks) == {tasks[i].id : i \in 1..Len(tasks)}

\* index of the first task with the given id, 0 when there is none
RECURSIVE FindFrom(_, _, _)
FindFrom(tasks, tid, i) ==
    IF i > Len(tasks) THEN 0
    ELSE IF tasks[i].id = tid THEN i
    ELSE FindFrom(tasks, tid, i + 1)

IndexOf(tasks, tid) == FindFrom(tasks, tid, 1)

\* the depth-first walk of _validate_plan: path is the on-stack set, visited
\* the set shared by all walks of one validation
RECURSIVE has_cycle(_, _, _, _)
RECURSIVE HasCycleDeps(_, _, _, _, _)
has_cycle(tasks, tid, path, visited) ==
    IF tid \in path THEN [cyc |-> TRUE, visited |-> visited]
    ELSE IF tid \in visited THEN [cyc |-> FALSE, visited |-> visited]
    ELSE LET k == IndexOf(tasks, tid)
             deps == IF k = 0 THEN <<>> ELSE tasks[k].dependencies
         IN HasCycleDeps(tasks, deps, 1, path \cup {tid}, visited \cup {tid})

HasCycleDeps(tasks, deps, i, path, visited) ==
    IF i > Len(deps) THEN [cyc |-> FALSE, visited |-> visited]
    ELSE LET r == has_cycle(tasks, deps[i], path, visited)
         IN IF r.cyc THEN r
            ELSE HasCycleDeps(tasks, deps, i + 1, path, r.visited)

\* first loop of _validate_plan: the first task with a dangling dependency or
\* an unregistered tool, in task order; 0 when there is none
RECURSIVE FirstInvalid(_, _)
FirstInvalid(tasks, i) ==
    IF i > Len(tasks) THEN 0
    ELSE IF \E j \in 1..Len(tasks[i].dependencies) :
                tasks[i].dependencies[j] \notin IdsOf(tasks) THEN i
    ELSE IF tasks[i].tool \notin valid_tools THEN i
    ELSE FirstInvalid(tasks, i + 1)

\* second loop of _validate_plan: the first task whose walk finds a cycle
RECURSIVE FirstCyclic(_, _, _)
FirstCyclic(tasks, i, visited) ==
    IF i > Len(tasks) THEN 0
    ELSE LET r == has_cycle(tasks, tasks[i].id, {}, visited)
         IN IF r.cyc THEN i ELSE FirstCyclic(tasks, i + 1, r.visited)

\* Faulty variant of validate_plan: only the walk from the first task is made
validate_plan_FirstWalkOnly(tasks) ==
    /\ FirstInvalid(tasks, 1) = 0
    /\ ~has_cycle(tasks, tasks[1].id, {}, {}).cyc

\* _validate_plan: TRUE when it returns, FALSE when it raises ValueError
validate_plan(tasks) ==
    /\ FirstInvalid(tasks, 1) = 0
    /\ FirstCyclic(tasks, 1, {}) = 0

(***************************************************************************)
(* What the Plan Generator may answer.  An item is one element of the     *)
(* JSON array: id, tool, tool_input, dependencies, risk_level.            *)
(***************************************************************************)
Item(id, tool, input, deps, risk) ==
    [id |-> id, tool |-> tool, tool_input |-> input, dependencies |-> deps,
     risk_level |-> risk]

PlanCatalog == <<
    \* 1: a dependent task listed before the task it depends on
    << Item("task_2", "file_read", {}, <<"task_1">>, "low"),
       Item("task_1", "file_read", {}, <<>>, "low") >>,
    \* 2: a destructive shell command the generator labelled low
    << Item("task_1", "bash_command", {"destructive"}, <<>>, "low") >>,
    \* 3: a read, then a destructive command labelled critical
    << Item("task_1", "file_read", {}, <<>>, "low"),
       Item("task_2", "bash_command", {"destructive"}, <<"task_1">>, "critical") >>,
    \* 4: two independent reads labelled high
    << Item("task_1", "file_read", {}, <<>>, "high"),
       Item("task_2", "file_read", {}, <<>>, "high") >>,
    \* 5: a self-dependency
    << Item("task_1", "file_read", {}, <<"task_1">>, "low") >>,
    \* 6: a tool that is not registered
    << Item("task_1", "screenshot", {}, <<>>, "low") >>,
    \* 7: a dependency on a task that is not in the plan
    << Item("task_2", "file_read", {}, <<"task_1">>, "low") >>,
    \* 8: two tasks that depend on each other
    << Item("task_1", "file_read", {}, <<"task_2">>, "low"),
       Item("task_2", "file_read", {}, <<"task_1">>, "low") >>
>>

\* what create_plan can end with: a catalogue plan, an API error of the
\* generator, or text that is not JSON
GeneratorOutcomes ==
    {[kind |-> "plan", n |-> i] : i \in 1..NumPlans}
        \cup {[kind |-> "api_error", n |-> 0], [kind |-> "unparseable", n |-> 0]}

\* task ids the approval surface is called with; task_9 is in no plan
TaskIdInputs == {"task_1", "task_2", "task_9"}

\* what one backend call can end with: a result, an exception, or an
\* exception of class PermissionError (the backends re-raise what they catch)
BackendOutcomes == {"ok", "error", "permission_error"}

VARIABLES
    approval_threshold,     \* Auditor.approval_threshold
    enable_human_approval,  \* Config.ENABLE_HUMAN_APPROVAL
    max_retries,            \* Executor.max_retries (Config.MAX_RETRIES)
    current_plan,           \* AgentState.current_plan
    completed_tasks,        \* AgentState.completed_tasks
    tool_outputs,           \* AgentState.tool_outputs (its key set)
    iteration_count,        \* AgentState.iteration_count
    error,                  \* AgentState.error
    pending_approvals,      \* Auditor.pending_approvals (its items)
    audit_history,          \* Auditor.audit_history
    audit_seq,              \* number of AuditLog objects created so far
    clock,                  \* the clock datetime.utcnow() reads
    pc,                     \* where the running handler is
    cur,                    \* execute_plan's next_task (its id)
    caller,                 \* the handler that called execute_plan
    ret,                    \* what the last handler returned
    run_end,                \* why the last execute_plan left its loop
    turn,                   \* number of process_user_message calls so far
    denied,                 \* <<gen, id>> of the tasks deny_task was called for
    requests,               \* every AuditLog ever created: <<id, task_id>>
    probe_task,             \* the Task a caller hands to the Auditor directly
    assessment,             \* what the Auditor returned for probe_task
    candidate,              \* the task list handed to Planner._validate_plan
    validation,             \* how that _validate_plan call ended
    results,                \* execute_plan's local results: task id -> result
    failed_tasks,           \* execute_plan's local failed_tasks (their ids)
    execution_summary,      \* what execute_plan returns
    processed,              \* tasks marked Completed or Failed in this AgentState
    session_id,             \* AgentOrchestrator.session_id: the uuids drawn so far
    mirror_writes           \* the audit events the last handler sent to the sink

vars == <<approval_threshold, enable_human_approval, max_retries, current_plan,
          completed_tasks, tool_outputs, iteration_count, error,
          pending_approvals, audit_history, audit_seq, clock, pc, cur, caller,
          ret, run_end, turn, denied, requests,
          probe_task, assessment, candidate, validation,
          results, failed_tasks, execution_summary, processed, session_id,
          mirror_writes>>

config == <<approval_threshold, enable_human_approval, max_retries>>
ledger == <<pending_approvals, audit_history, audit_seq, clock, requests>>
session_state == <<current_plan, completed_tasks, tool_outputs, iteration_count,
                   error>>
direct_call == <<probe_task, assessment, candidate, validation>>
run_locals == <<results, failed_tasks, execution_summary>>

(***************************************************************************)
(* AgentState (state.py).                                                  *)
(***************************************************************************)
\* is_complete is never assigned after construction
is_complete == FALSE

\* Faulty variant of should_continue: the ceiling itself is still allowed
should_continue_Inclusive ==
    ~is_complete /\ iteration_count <= MAX_ITERATIONS /\ error = None

should_continue == ~is_complete /\ iteration_count < MAX_ITERATIONS /\ error = None

IsEligible(plan, done, i) ==
    /\ plan[i].status = "pending"
    /\ \A j \in 1..Len(plan[i].dependencies) : plan[i].dependencies[j] \in IdsOf(done)

\* Faulty variant of get_next_task: it tests "status is not Completed" where the
\* code tests "status is Pending"
get_next_task_NotCompleted(plan, done) ==
    LET ok(i) == /\ plan[i].status # "completed"
                 /\ \A j \in 1..Len(plan[i].dependencies) :
                       plan[i].dependencies[j] \in IdsOf(done)
    IN IF \E i \in 1..Len(plan) : ok(i)
       THEN CHOOSE i \in 1..Len(plan) : ok(i) /\ \A j \in 1..(i - 1) : ~ok(j)
       ELSE 0

\* Faulty variant of get_next_task: a Failed task is taken up again
get_next_task_OrFailed(plan, done) ==
    LET ok(i) == /\ plan[i].status \in {"pending", "failed"}
                 /\ \A j \in 1..Len(plan[i].dependencies) :
                       plan[i].dependencies[j] \in IdsOf(done)
    IN IF \E i \in 1..Len(plan) : ok(i)
       THEN CHOOSE i \in 1..Len(plan) : ok(i) /\ \A j \in 1..(i - 1) : ~ok(j)
       ELSE 0

\* get_next_task: index of the first Pending task whose dependencies are all
\* ids of the completed list; 0 when there is none
get_next_task(plan, done) ==
    IF \E i \in 1..Len(plan) : IsEligible(plan, done, i)
    THEN CHOOSE i \in 1..Len(plan) :
            /\ IsEligible(plan, done, i)
            /\ \A j \in 1..(i - 1) : ~IsEligible(plan, done, j)
    ELSE 0

RemoveAt(s, i) == [j \in 1..(Len(s) - 1) |-> IF j < i THEN s[j] ELSE s[j + 1]]

\* mark_task_complete: the plan and the completed list afterwards
mark_task_complete(plan, done, tid, result) ==
    LET k == IndexOf(plan, tid)
    IN IF k = 0 THEN [plan |-> plan, done |-> done]
       ELSE [plan |-> RemoveAt(plan, k),
             done |-> Append(done, [plan[k] EXCEPT !.status = "completed",
                                                   !.result = result])]

\* mark_task_failed: the plan afterwards
mark_task_failed(plan, tid, err) ==
    LET k == IndexOf(plan, tid)
    IN IF k = 0 THEN plan
       ELSE [plan EXCEPT ![k].status = "failed", ![k].error = err]

(***************************************************************************)
(* Auditor: the pending ledger and the audit history (auditor.py).         *)
(***************************************************************************)
\* decision_timestamp: datetime | None
NoTimestamp == <<>>
Timestamp(now) == <<now>>

\* AuditLog.__init__ as request_approval calls it; id stands for the uuid.
\* gen (the plan of the task the request was made for) is a history field.
AuditLog(n, task, now) ==
    [id |-> n, task_id |-> task.id, gen |-> task.gen, tool |-> task.tool,
     risk_level |-> assess_task_risk(task.tool, task.tool_input, task.risk_level),
     user_id |-> "default", timestamp |-> now,
     decision |-> None, decision_timestamp |-> NoTimestamp]

HasPending(pending, tid) == \E e \in pending : e.task_id = tid

PendingOf(pending, tid) == CHOOSE e \in pending : e.task_id = tid

\* Faulty variant of request_approval: the new entry is added beside the old one
request_approval_NoReplace(pending, task, n, now) ==
    pending \cup {AuditLog(n, task, now)}

\* request_approval: pending_approvals[task.id] = audit_log
request_approval(pending, task, n, now) ==
    {e \in pending : e.task_id # task.id} \cup {AuditLog(n, task, now)}

\* Faulty variant of handle_approval_workflow: approval is requested for the
\* first task of the list only
handle_approval_workflow_FirstOnly(pending, tasks, i, n, now) ==
    IF tasks = <<>> THEN pending
    ELSE request_approval(pending, tasks[1], n + 1, now + 1)

\* _handle_approval_workflow: request_approval for each task of the list in
\* turn; the i-th new AuditLog is numbered n + i and stamped now + i
RECURSIVE handle_approval_workflow(_, _, _, _, _)
handle_approval_workflow(pending, tasks, i, n, now) ==
    IF i > Len(tasks) THEN pending
    ELSE handle_approval_workflow(
             request_approval(pending, tasks[i], n + i, now + i),
             tasks, i + 1, n, now)

\* Faulty variant of pop_pending: the ledger is cleared
pop_pending_Clear(pending, tid) == {}

\* approve_task / deny_task after the membership test: pop the entry
pop_pending(pending, tid) == {e \in pending : e.task_id # tid}

\* ... stamp the decision on it
stamp_decision(entry, decision, now) ==
    [entry EXCEPT !.decision = decision, !.decision_timestamp = Timestamp(now)]

\* Faulty variant of append_history: the entry is put at the front
append_history_Prepend(history, entry) == <<entry>> \o history

\* ... and append it to the history
append_history(history, entry) == Append(history, entry)

\* how cloudwatch.put_log_event can end: it returns, or it raises
SinkOutcomes == {"written", "raises"}

\* _log_to_cloudwatch: the event handed to put_log_event and how the write
\* ended; an exception of the write is caught and logged as a warning
log_to_cloudwatch(entry, event_type, sink) ==
    [event_type |-> event_type, audit_id |-> entry.id, task_id |-> entry.task_id,
     outcome |-> sink]

(***************************************************************************)
(* What a handler returns: the kind of message, and the task id the        *)
(* approve / deny messages name.                                           *)
(***************************************************************************)
Returned(kind) == [kind |-> kind, task_id |-> None, reason |-> None]
ReturnedFor(kind, tid) == [kind |-> kind, task_id |-> tid, reason |-> None]

\* "Request blocked by security guardrails: {violation_reason}"
ReturnedBlocked(reason) == [kind |-> "blocked", task_id |-> None, reason |-> reason]

\* how Guardrails.validate_input can end: the input passes, a check rejects
\* it, or a check raises and the except branch answers (False, "Validation
\* error: ...")
FilterVerdicts == {"ok", "violation", "validation_error"}
NoReturn == Returned(None)

(***************************************************************************)
(* The locals of Executor.execute_plan and the summary it returns.         *)
(***************************************************************************)
\* results = {}
NoResults == <<>>

\* no execute_plan call has returned a summary that is still in scope
NoSummary == <<>>

\* results[next_task.id] = result
put_result(res, tid, result) == (tid :> result) @@ res

\* [{"id": t.id, "error": t.error} for t in failed_tasks]: the Task objects
\* of the list are the ones of the plan
failed_task_errors(plan, failed) ==
    [i \in 1..Len(failed) |->
        [id |-> failed[i], error |-> plan[IndexOf(plan, failed[i])].error]]

\* the execution_summary dict
ExecutionSummary(plan, done, res, failed) ==
    <<[completed |-> Len(done),
       failed |-> Len(failed),
       remaining |-> Len(plan),
       results |-> res,
       failed_tasks |-> failed_task_errors(plan, failed)]>>

(***************************************************************************)
(* Initial state: a constructed AgentOrchestrator with any configuration.  *)
(***************************************************************************)
\* a fresh AgentState, empty ledgers, no handler running
InitSession ==
    /\ current_plan = <<>>
    /\ completed_tasks = <<>>
    /\ tool_outputs = {}
    /\ iteration_count = 0
    /\ error = None
    /\ pending_approvals = {}
    /\ audit_history = <<>>
    /\ audit_seq = 0
    /\ clock = 0
    /\ pc = "idle"
    /\ cur = None
    /\ caller = None
    /\ ret = NoReturn
    /\ run_end = None
    /\ turn = 0
    /\ denied = {}
    /\ requests = {}
    /\ results = NoResults
    /\ failed_tasks = <<>>
    /\ execution_summary = NoSummary
    /\ processed = 0
    /\ session_id = 0
    /\ mirror_writes = <<>>

\* no direct call of the Auditor or of the plan validator has been made
NoAssessment == [assessed |-> <<>>, required |-> <<>>]
NoValidation == <<>>

NoDirectCall ==
    /\ probe_task = None
    /\ assessment = NoAssessment
    /\ candidate = <<>>
    /\ validation = NoValidation

Init ==
    /\ approval_threshold \in RiskLevel
    /\ enable_human_approval \in BOOLEAN
    /\ max_retries = MAX_RETRIES
    /\ InitSession
    /\ NoDirectCall

\* the default approval settings (threshold High, human approval enabled)
\* with every configured number of retries from 0 to MAX_RETRIES + 1
InitRetries ==
    /\ approval_threshold = "high"
    /\ enable_human_approval = TRUE
    /\ max_retries \in 0..(MAX_RETRIES + 1)
    /\ InitSession
    /\ NoDirectCall

(***************************************************************************)
(* AgentOrchestrator.process_user_message, up to the call of the Executor. *)
(***************************************************************************)
\* high_risk_tasks = [t for t in plan if self.auditor.requires_approval(t)]
high_risk_tasks(plan, threshold) ==
    SelectSeq(plan, LAMBDA t : AuditorRequiresApproval(t, threshold))

\* the input filter blocks the message: nothing but the return value changes
InputBlocked(reason) ==
    /\ ret' = ReturnedBlocked(reason)
    /\ mirror_writes' = <<>>
    /\ UNCHANGED <<session_state, ledger, pc, cur, caller, run_end, denied>>

\* Faulty variant of PlanCreationFailed: the active plan is emptied first
PlanCreationFailed_ClearsPlan ==
    /\ error' = "processing_error"
    /\ ret' = Returned("error")
    /\ mirror_writes' = <<>>
    /\ current_plan' = <<>>
    /\ UNCHANGED <<completed_tasks, tool_outputs, iteration_count,
                   ledger, pc, cur, caller, run_end, denied>>

\* create_plan raises (generator error, unparseable text, invalid plan):
\* the except branch records the error
PlanCreationFailed ==
    /\ error' = "processing_error"
    /\ ret' = Returned("error")
    /\ mirror_writes' = <<>>
    /\ UNCHANGED <<current_plan, completed_tasks, tool_outputs, iteration_count,
                   ledger, pc, cur, caller, run_end, denied>>

\* the plan is adopted; either approval is requested and the turn ends, or
\* the Executor is started
PlanAdopted(plan) ==
    LET high == high_risk_tasks(plan, approval_threshold)
    IN /\ current_plan' = plan
       /\ IF high # <<>> /\ enable_human_approval
          THEN /\ pending_approvals' =
                     handle_approval_workflow(pending_approvals, high, 1,
                                              audit_seq, clock)
               /\ audit_seq' = audit_seq + Len(high)
               /\ clock' = clock + Len(high)
               /\ requests' = requests \cup
                     {<<audit_seq + i, high[i].id>> : i \in 1..Len(high)}
               /\ \E sink \in [1..Len(high) -> SinkOutcomes] :
                     mirror_writes' =
                        [i \in 1..Len(high) |->
                            log_to_cloudwatch(
                                AuditLog(audit_seq + i, high[i], clock + i),
                                "approval_requested", sink[i])]
               /\ ret' = Returned("approval_request")
               /\ UNCHANGED <<pc, caller>>
          ELSE /\ pc' = "run"
               /\ caller' = "process"
               /\ ret' = NoReturn
               /\ mirror_writes' = <<>>
               /\ UNCHANGED <<pending_approvals, audit_seq, clock, requests>>
       /\ UNCHANGED <<completed_tasks, tool_outputs, iteration_count, error,
                      audit_history, cur, run_end, denied>>

ProcessUserMessage ==
    /\ pc = "idle"
    /\ turn < MaxTurns
    /\ turn' = turn + 1
    /\ UNCHANGED <<config, direct_call, run_locals, processed, session_id>>
    /\ \E verdict \in FilterVerdicts, g \in GeneratorOutcomes :
          IF verdict # "ok" THEN InputBlocked(verdict)
          ELSE IF g.kind # "plan" THEN PlanCreationFailed
          ELSE LET plan == ParsePlan(PlanCatalog[g.n], turn + 1)
               IN IF validate_plan(plan) THEN PlanAdopted(plan)
                  ELSE PlanCreationFailed

(***************************************************************************)
(* Executor.execute_plan, one pass of its loop per step, and               *)
(* Executor.execute_task, one backend call per step.                       *)
(***************************************************************************)
\* Config.RETRY_DELAY_SECONDS
RETRY_DELAY_SECONDS == 2

\* Executor.retry_delay
retry_delay == RETRY_DELAY_SECONDS

\* Faulty variant of backoff: the same delay before every retry
backoff_Constant(retry_count) == retry_delay

\* time.sleep(self.retry_delay * task.retry_count)
backoff(retry_count) == retry_delay * retry_count

\* Faulty variant of NeedsApproval: the gate is applied to Critical tasks only
NeedsApproval_CriticalOnly(task) == task.risk_level = "critical" /\ ~task.approved

\* execute_task's gate: raise PermissionError before anything else
NeedsApproval(task) == task.requires_approval /\ ~task.approved

\* Faulty variant of block_pending: every task left in the plan becomes Blocked
block_pending_EveryTask(plan) ==
    [i \in 1..Len(plan) |-> [plan[i] EXCEPT !.status = "blocked"]]

\* blocked_tasks: every Pending task becomes Blocked
block_pending(plan) ==
    [i \in 1..Len(plan) |->
        IF plan[i].status = "pending" THEN [plan[i] EXCEPT !.status = "blocked"]
        ELSE plan[i]]

\* the loop's head, get_next_task, and execute_task up to the backend call
ExecutePlanStep ==
    /\ pc = "run"
    /\ IF current_plan = <<>> \/ ~should_continue
       THEN /\ pc' = "respond"
            /\ run_end' = "stopped"
            /\ execution_summary' =
                  ExecutionSummary(current_plan, completed_tasks, results,
                                   failed_tasks)
            /\ UNCHANGED <<current_plan, cur>>
       ELSE LET k == get_next_task(current_plan, completed_tasks)
            IN IF k = 0
               THEN /\ current_plan' = block_pending(current_plan)
                    /\ pc' = "respond"
                    /\ run_end' = "no_eligible_task"
                    /\ execution_summary' =
                          ExecutionSummary(current_plan', completed_tasks,
                                           results, failed_tasks)
                    /\ UNCHANGED cur
               ELSE IF NeedsApproval(current_plan[k])
               THEN /\ pc' = "respond"
                    /\ run_end' = "awaiting_approval"
                    /\ cur' = current_plan[k].id
                    /\ execution_summary' =
                          ExecutionSummary(current_plan, completed_tasks,
                                           results, failed_tasks)
                    /\ UNCHANGED current_plan
               ELSE /\ current_plan' =
                          [current_plan EXCEPT
                              ![k].status = "in_progress",
                              ![k].dispatches = current_plan[k].dispatches + 1]
                    /\ pc' = "exec"
                    /\ cur' = current_plan[k].id
                    /\ UNCHANGED <<run_end, execution_summary>>
    /\ UNCHANGED <<config, direct_call, results, failed_tasks, processed,
                   session_id, mirror_writes, completed_tasks, tool_outputs,
                   iteration_count, error, ledger, caller, ret, turn, denied>>

\* the backend returns: mark_task_complete, tool_outputs, iteration_count
BackendReturns ==
    LET k == IndexOf(current_plan, cur)
        m == mark_task_complete([current_plan EXCEPT
                                    ![k].outcome = "ok",
                                    ![k].calls = current_plan[k].calls + 1],
                                completed_tasks, cur, "result")
    IN /\ current_plan' = m.plan
       /\ completed_tasks' = m.done
       /\ tool_outputs' = tool_outputs \cup {cur}
       /\ results' = put_result(results, cur, "result")
       /\ iteration_count' = iteration_count + 1
       /\ processed' = processed + 1
       /\ pc' = "run"
       /\ UNCHANGED <<error, run_end, failed_tasks, execution_summary>>

\* Faulty variant of BackendRaises: a failure of any risk level aborts the run
BackendRaises_AbortsOnAny(out) ==
    LET k == IndexOf(current_plan, cur)
        n == current_plan[k].retry_count + 1
        counted == [current_plan EXCEPT ![k].retry_count = n, ![k].outcome = out,
                                        ![k].calls = current_plan[k].calls + 1]
    IN IF n < max_retries
       THEN /\ current_plan' =
                  [counted EXCEPT ![k].sleeps = Append(@, backoff(n))]
            /\ pc' = "exec"
            /\ UNCHANGED <<completed_tasks, tool_outputs, iteration_count,
                           error, run_end, run_locals, processed>>
       ELSE IF out = "permission_error"
       THEN /\ current_plan' = counted
            /\ pc' = "respond"
            /\ run_end' = "permission_error"
            /\ execution_summary' =
                  ExecutionSummary(counted, completed_tasks, results,
                                   failed_tasks)
            /\ UNCHANGED <<completed_tasks, tool_outputs, iteration_count, error,
                           results, failed_tasks, processed>>
       ELSE /\ current_plan' = mark_task_failed(counted, cur, "error")
            /\ failed_tasks' = Append(failed_tasks, cur)
            /\ processed' = processed + 1
            /\ error' = "critical_task_failed"
            /\ pc' = "respond"
            /\ run_end' = "critical_task_failed"
            /\ execution_summary' =
                  ExecutionSummary(current_plan', completed_tasks, results,
                                   failed_tasks')
            /\ UNCHANGED <<iteration_count, completed_tasks, tool_outputs,
                           results>>

\* Faulty variant of BackendRaises: every failed call records its error on the task
BackendRaises_RecordsError(out) ==
    LET k == IndexOf(current_plan, cur)
        n == current_plan[k].retry_count + 1
        counted == [current_plan EXCEPT ![k].retry_count = n, ![k].outcome = out,
                                        ![k].calls = current_plan[k].calls + 1,
                                        ![k].error = "error"]
    IN IF n < max_retries
       THEN /\ current_plan' =
                  [counted EXCEPT ![k].sleeps = Append(@, backoff(n))]
            /\ pc' = "exec"
            /\ UNCHANGED <<completed_tasks, tool_outputs, iteration_count,
                           error, run_end, run_locals, processed>>
       ELSE IF out = "permission_error"
       THEN /\ current_plan' = counted
            /\ pc' = "respond"
            /\ run_end' = "permission_error"
            /\ execution_summary' =
                  ExecutionSummary(counted, completed_tasks, results,
                                   failed_tasks)
            /\ UNCHANGED <<completed_tasks, tool_outputs, iteration_count, error,
                           results, failed_tasks, processed>>
       ELSE /\ current_plan' = mark_task_failed(counted, cur, "error")
            /\ failed_tasks' = Append(failed_tasks, cur)
            /\ processed' = processed + 1
            /\ IF current_plan[k].risk_level \in {"high", "critical"}
               THEN /\ error' = "critical_task_failed"
                    /\ pc' = "respond"
                    /\ run_end' = "critical_task_failed"
                    /\ execution_summary' =
                          ExecutionSummary(current_plan', completed_tasks,
                                           results, failed_tasks')
                    /\ UNCHANGED iteration_count
               ELSE /\ iteration_count' = iteration_count + 1
                    /\ pc' = "run"
                    /\ UNCHANGED <<error, run_end, execution_summary>>
            /\ UNCHANGED <<completed_tasks, tool_outputs, results>>

\* the backend raises: retry_count += 1, then retry, or re-raise into
\* execute_plan's except branches
BackendRaises(out) ==
    LET k == IndexOf(current_plan, cur)
        n == current_plan[k].retry_count + 1
        counted == [current_plan EXCEPT ![k].retry_count = n, ![k].outcome = out,
                                        ![k].calls = current_plan[k].calls + 1]
    IN IF n < max_retries
       THEN /\ current_plan' =
                  [counted EXCEPT ![k].sleeps = Append(@, backoff(n))]
            /\ pc' = "exec"
            /\ UNCHANGED <<completed_tasks, tool_outputs, iteration_count,
                           error, run_end, run_locals, processed>>
       ELSE IF out = "permission_error"
       THEN /\ current_plan' = counted
            /\ pc' = "respond"
            /\ run_end' = "permission_error"
            /\ execution_summary' =
                  ExecutionSummary(counted, completed_tasks, results,
                                   failed_tasks)
            /\ UNCHANGED <<completed_tasks, tool_outputs, iteration_count, error,
                           results, failed_tasks, processed>>
       ELSE /\ current_plan' = mark_task_failed(counted, cur, "error")
            /\ failed_tasks' = Append(failed_tasks, cur)
            /\ processed' = processed + 1
            /\ IF current_plan[k].risk_level \in {"high", "critical"}
               THEN /\ error' = "critical_task_failed"
                    /\ pc' = "respond"
                    /\ run_end' = "critical_task_failed"
                    /\ execution_summary' =
                          ExecutionSummary(current_plan', completed_tasks,
                                           results, failed_tasks')
                    /\ UNCHANGED iteration_count
               ELSE /\ iteration_count' = iteration_count + 1
                    /\ pc' = "run"
                    /\ UNCHANGED <<error, run_end, execution_summary>>
            /\ UNCHANGED <<completed_tasks, tool_outputs, results>>

BackendCall ==
    /\ pc = "exec"
    /\ \E out \in BackendOutcomes :
          IF out = "ok" THEN BackendReturns ELSE BackendRaises(out)
    /\ UNCHANGED <<config, direct_call, session_id, mirror_writes, ledger, cur,
                   caller, ret, turn, denied>>

\* after execute_plan: _generate_response, the output filter, the return
\* (the locals of the run go out of scope).
\* In process_user_message an exception of the synthesis reaches the except
\* branch; in continue_execution it reaches the caller.
Respond ==
    /\ pc = "respond"
    /\ pc' = "idle"
    /\ \E out \in {"response", "output_blocked", "raises"} :
          /\ out = "output_blocked" => caller = "process"
          /\ IF out = "raises" /\ caller = "process"
             THEN error' = "processing_error" /\ ret' = Returned("error")
             ELSE error' = error /\ ret' = Returned(out)
    /\ cur' = None
    /\ caller' = None
    /\ run_end' = None
    /\ results' = NoResults
    /\ failed_tasks' = <<>>
    /\ execution_summary' = NoSummary
    /\ UNCHANGED <<config, direct_call, processed, session_id, mirror_writes,
                   current_plan, completed_tasks, tool_outputs, iteration_count,
                   ledger, turn, denied>>

(***************************************************************************)
(* The approval surface: approve_task, deny_task, continue_execution;      *)
(* and reset_session.                                                      *)
(***************************************************************************)
\* Faulty variant of set_approved: the loop lacks the test of the task id
set_approved_EveryTask(plan, tid) ==
    [i \in 1..Len(plan) |-> [plan[i] EXCEPT !.approved = TRUE]]

\* for task in current_plan: if task.id == task_id: task.approved = True; break
set_approved(plan, tid) ==
    LET k == IndexOf(plan, tid)
    IN IF k = 0 THEN plan ELSE [plan EXCEPT ![k].approved = TRUE]

\* current_plan = [t for t in current_plan if t.id != task_id]
remove_task(plan, tid) == SelectSeq(plan, LAMBDA t : t.id # tid)

\* the event type approve_task / deny_task mirror
EventOf(decision) == IF decision = "approve" THEN "task_approved" ELSE "task_denied"

\* Faulty variant of Resolve: the event is mirrored first, and a write that
\* raises abandons the decision
Resolve_MirrorFirst(tid, decision, sink) ==
    LET entry == stamp_decision(PendingOf(pending_approvals, tid), decision,
                                clock + 1)
    IN /\ mirror_writes' = <<log_to_cloudwatch(entry, EventOf(decision), sink)>>
       /\ IF sink = "raises" THEN UNCHANGED <<pending_approvals, audit_history>>
          ELSE /\ pending_approvals' = pop_pending(pending_approvals, tid)
               /\ audit_history' = append_history(audit_history, entry)
       /\ clock' = clock + 1
       /\ UNCHANGED <<audit_seq, requests>>

\* Auditor.approve_task / Auditor.deny_task when the entry is there: pop,
\* stamp, append, then mirror the event
Resolve(tid, decision, sink) ==
    LET entry == stamp_decision(PendingOf(pending_approvals, tid), decision,
                                clock + 1)
    IN /\ pending_approvals' = pop_pending(pending_approvals, tid)
       /\ audit_history' = append_history(audit_history, entry)
       /\ mirror_writes' = <<log_to_cloudwatch(entry, EventOf(decision), sink)>>
       /\ clock' = clock + 1
       /\ UNCHANGED <<audit_seq, requests>>

\* Faulty variant of ApproveTask: a successful approval resumes the run itself
ApproveTask_Resumes(tid) ==
    /\ pc = "idle"
    /\ (HasPending(pending_approvals, tid) => Len(audit_history) < MaxDecisions)
    /\ IF HasPending(pending_approvals, tid)
       THEN /\ \E sink \in SinkOutcomes : Resolve(tid, "approve", sink)
            /\ current_plan' = set_approved(current_plan, tid)
            /\ ret' = ReturnedFor("approved", tid)
            /\ pc' = "run"
            /\ caller' = "continue"
       ELSE /\ ret' = ReturnedFor("not_found", tid)
            /\ mirror_writes' = <<>>
            /\ UNCHANGED <<ledger, current_plan, pc, caller>>
    /\ UNCHANGED <<config, direct_call, run_locals, processed, session_id,
                   completed_tasks, tool_outputs,
                   iteration_count, error, cur, run_end, turn, denied>>

\* Faulty variant of ApproveTask: the flag is set whatever Auditor.approve_task returned
ApproveTask_Unchecked(tid) ==
    /\ pc = "idle"
    /\ (HasPending(pending_approvals, tid) => Len(audit_history) < MaxDecisions)
    /\ IF HasPending(pending_approvals, tid)
       THEN /\ \E sink \in SinkOutcomes : Resolve(tid, "approve", sink)
            /\ ret' = ReturnedFor("approved", tid)
       ELSE /\ ret' = ReturnedFor("not_found", tid)
            /\ mirror_writes' = <<>>
            /\ UNCHANGED ledger
    /\ current_plan' = set_approved(current_plan, tid)
    /\ UNCHANGED <<config, direct_call, run_locals, processed, session_id,
                   completed_tasks, tool_outputs,
                   iteration_count, error, pc, cur, caller, run_end, turn, denied>>

ApproveTask(tid) ==
    /\ pc = "idle"
    /\ (HasPending(pending_approvals, tid) => Len(audit_history) < MaxDecisions)
    /\ IF HasPending(pending_approvals, tid)
       THEN /\ \E sink \in SinkOutcomes : Resolve(tid, "approve", sink)
            /\ current_plan' = set_approved(current_plan, tid)
            /\ ret' = ReturnedFor("approved", tid)
       ELSE /\ ret' = ReturnedFor("not_found", tid)
            /\ mirror_writes' = <<>>
            /\ UNCHANGED <<ledger, current_plan>>
    /\ UNCHANGED <<config, direct_call, run_locals, processed, session_id,
                   completed_tasks, tool_outputs,
                   iteration_count, error, pc, cur, caller, run_end, turn, denied>>

DenyTask(tid) ==
    /\ pc = "idle"
    /\ (HasPending(pending_approvals, tid) => Len(audit_history) < MaxDecisions)
    /\ IF HasPending(pending_approvals, tid)
       THEN /\ \E sink \in SinkOutcomes : Resolve(tid, "deny", sink)
            /\ current_plan' = remove_task(current_plan, tid)
            /\ denied' = denied \cup
                  {<<PendingOf(pending_approvals, tid).gen, tid>>}
            /\ ret' = ReturnedFor("denied", tid)
       ELSE /\ ret' = ReturnedFor("not_found", tid)
            /\ mirror_writes' = <<>>
            /\ UNCHANGED <<ledger, current_plan, denied>>
    /\ UNCHANGED <<config, direct_call, run_locals, processed, session_id,
                   completed_tasks, tool_outputs,
                   iteration_count, error, pc, cur, caller, run_end, turn>>

\* approved_tasks = [t for t in current_plan if t.approved or not t.requires_approval]
approved_tasks(plan) ==
    SelectSeq(plan, LAMBDA t : t.approved \/ ~t.requires_approval)

ContinueExecution ==
    /\ pc = "idle"
    /\ IF approved_tasks(current_plan) = <<>>
       THEN /\ ret' = Returned("no_approved_tasks")
            /\ UNCHANGED <<pc, caller>>
       ELSE /\ pc' = "run"
            /\ caller' = "continue"
            /\ ret' = NoReturn
    /\ mirror_writes' = <<>>
    /\ UNCHANGED <<config, direct_call, run_locals, processed, session_id,
                   session_state, ledger, cur, run_end, turn,
                   denied>>

\* Faulty variant of ResetSession: the recorded error is carried over into
\* the new AgentState
ResetSession_KeepsError ==
    /\ pc = "idle"
    /\ session_id < MaxResets
    /\ session_id' = session_id + 1
    /\ current_plan' = <<>>
    /\ completed_tasks' = <<>>
    /\ tool_outputs' = {}
    /\ iteration_count' = 0
    /\ processed' = 0
    /\ ret' = NoReturn
    /\ mirror_writes' = <<>>
    /\ UNCHANGED <<config, direct_call, run_locals, error, ledger, pc, cur,
                   caller, run_end, turn, denied>>

\* a new session id (a uuid no earlier session had; the correlation id is
\* drawn the same way) and a fresh AgentState; the Auditor and its ledgers
\* are kept
ResetSession ==
    /\ pc = "idle"
    /\ session_id < MaxResets
    /\ session_id' = session_id + 1
    /\ current_plan' = <<>>
    /\ completed_tasks' = <<>>
    /\ tool_outputs' = {}
    /\ iteration_count' = 0
    /\ error' = None
    /\ processed' = 0
    /\ ret' = NoReturn
    /\ mirror_writes' = <<>>
    /\ UNCHANGED <<config, direct_call, run_locals, ledger, pc, cur, caller,
                   run_end, turn, denied>>

Next ==
    \/ ProcessUserMessage
    \/ ExecutePlanStep
    \/ BackendCall
    \/ Respond
    \/ \E tid \in TaskIdInputs : ApproveTask(tid)
    \/ \E tid \in TaskIdInputs : DenyTask(tid)
    \/ ContinueExecution
    \/ ResetSession

Spec == Init /\ [][Next]_vars

SpecRetries == InitRetries /\ [][Next]_vars

\* the same, with the Executor running on once execute_plan was called: the
\* loop takes its next step and every backend call returns or raises
SpecTermination ==
    /\ InitRetries
    /\ [][Next]_vars
    /\ WF_vars(ExecutePlanStep)
    /\ WF_vars(BackendCall)

(***************************************************************************)
(* The Auditor's risk policy called directly, as its callers and the       *)
(* tests do: assess_task_risk(task) and requires_approval(task) on any     *)
(* Task, whatever its tool, tool_input and nominal risk_level.             *)
(***************************************************************************)
\* the tools assess_task_risk has a branch for, and the two it has none for
AssessedTools == valid_tools \cup {"screenshot", "mouse_move", "mouse_click",
                                   "keyboard_type", "keyboard_press",
                                   "keyboard_hotkey"}

\* the patterns assess_task_risk looks for in a tool_input
InputPatterns == {"dangerous_code", "sensitive_path", "destructive", "system",
                  "download_exec", "file_mod", "read_only", "sensitive_input"}

ProbeTasks ==
    {ParseItem(Item("task_1", tool, input, <<>>, level), 0) :
        tool \in AssessedTools, input \in SUBSET InputPatterns, level \in RiskLevel}

InitRisk ==
    /\ approval_threshold \in RiskLevel
    /\ enable_human_approval = TRUE
    /\ max_retries = MAX_RETRIES
    /\ InitSession
    /\ probe_task \in ProbeTasks
    /\ assessment = NoAssessment
    /\ candidate = <<>>
    /\ validation = NoValidation

\* risk_level, _ = auditor.assess_task_risk(task)
AssessTaskRisk ==
    /\ assessment' =
          [assessment EXCEPT !.assessed =
              <<assess_task_risk(probe_task.tool, probe_task.tool_input,
                                 probe_task.risk_level)>>]
    /\ UNCHANGED <<config, session_state, run_locals, processed, session_id,
                   mirror_writes,
                   ledger, pc, cur, caller, ret, run_end,
                   turn, denied, probe_task, candidate, validation>>

\* auditor.requires_approval(task)
RequiresApproval ==
    /\ assessment' =
          [assessment EXCEPT !.required =
              <<AuditorRequiresApproval(probe_task, approval_threshold)>>]
    /\ UNCHANGED <<config, session_state, run_locals, processed, session_id,
                   mirror_writes,
                   ledger, pc, cur, caller, ret, run_end,
                   turn, denied, probe_task, candidate, validation>>

NextRisk ==
    \/ AssessTaskRisk
    \/ RequiresApproval

SpecRisk == InitRisk /\ [][NextRisk]_vars

(***************************************************************************)
(* Planner._validate_plan called on a candidate task list, as create_plan  *)
(* does with what _parse_plan built.  The candidates are the plans of 1 to *)
(* MaxPlanTasks tasks with distinct ids, registered tools, and any         *)
(* dependencies among the plan's own ids, listed in ascending or in        *)
(* descending order.                                                       *)
(***************************************************************************)
TaskId(i) == "task_" \o ToString(i)

\* the ids of the tasks numbered in S, as a dependencies list
DepList(S, n, descending) ==
    LET order == [i \in 1..n |-> IF descending THEN n + 1 - i ELSE i]
        chosen == SelectSeq(order, LAMBDA i : i \in S)
    IN [k \in 1..Len(chosen) |-> TaskId(chosen[k])]

\* the candidate plan of n tasks in which task i depends on the tasks of d[i]
CandidatePlan(n, d, descending) ==
    [i \in 1..n |->
        ParseItem(Item(TaskId(i), "file_read", {}, DepList(d[i], n, descending),
                       "low"), 0)]

InitPlan ==
    /\ approval_threshold = "high"
    /\ enable_human_approval = TRUE
    /\ max_retries = MAX_RETRIES
    /\ InitSession
    /\ probe_task = None
    /\ assessment = NoAssessment
    /\ \E n \in 1..MaxPlanTasks :
          \E d \in [1..n -> SUBSET (1..n)], descending \in BOOLEAN :
              candidate = CandidatePlan(n, d, descending)
    /\ validation = NoValidation

\* what the ValueError of _validate_plan names: the first task with a
\* dangling dependency or unregistered tool, else the first task whose walk
\* finds a cycle
NamedTask(tasks) ==
    IF FirstInvalid(tasks, 1) # 0 THEN tasks[FirstInvalid(tasks, 1)].id
    ELSE tasks[FirstCyclic(tasks, 1, {})].id

\* self._validate_plan(tasks): it returns, or raises ValueError
ValidatePlan ==
    /\ validation' =
          IF validate_plan(candidate)
          THEN <<[outcome |-> "accepted", named |-> None]>>
          ELSE <<[outcome |-> "rejected", named |-> NamedTask(candidate)]>>
    /\ UNCHANGED <<config, session_state, run_locals, processed, session_id,
                   mirror_writes,
                   ledger, pc, cur, caller, ret, run_end,
                   turn, denied, probe_task, assessment, candidate>>

NextPlan == ValidatePlan

SpecPlan == InitPlan /\ [][NextPlan]_vars

(***************************************************************************)
(* Vocabulary of the properties.                                           *)
(***************************************************************************)
PlanTasks == {current_plan[i] : i \in 1..Len(current_plan)}
CompletedTasks == {completed_tasks[i] : i \in 1..Len(completed_tasks)}
AllTasks == PlanTasks \cup CompletedTasks
HistoryEntries == {audit_history[i] : i \in 1..Len(audit_history)}

\* the task execute_plan has handed to its backend (pc = "exec")
CurTask == current_plan[IndexOf(current_plan, cur)]

\* an approve(task_id) call succeeded earlier: the history records it
ApprovedEarlier(tid) ==
    \E h \in HistoryEntries : h.task_id = tid /\ h.decision = "approve"

\* C1. Approval gate: a task the Risk Policy requires approval for is
\* dispatched only after approve(task_id) succeeded for it.  The claim covers
\* every configuration; it is stated here for the default one (threshold
\* High, human approval enabled), where it already fails.
C1_ApprovalGate ==
    (pc = "exec" /\ enable_human_approval /\ approval_threshold = "high") =>
        (AuditorRequiresApproval(CurTask, approval_threshold) =>
            ApprovedEarlier(CurTask.id))

\* C2. Ordering: a task is dispatched only after every task named in its
\* dependencies has reached Completed as part of the same plan.
C2_Ordering ==
    pc = "exec" =>
        \A j \in 1..Len(CurTask.dependencies) :
            \E c \in CompletedTasks :
                /\ c.id = CurTask.dependencies[j]
                /\ c.gen = CurTask.gen
                /\ c.status = "completed"

\* the task execute_plan selects in the current state (0: none)
Selected == get_next_task(current_plan, completed_tasks)

\* execute_plan is at the head of its loop and selects a task whose
\* requires_approval flag is set and whose approved flag is clear
SelectsUnapproved ==
    /\ pc = "run"
    /\ current_plan # <<>>
    /\ should_continue
    /\ Selected # 0
    /\ current_plan[Selected].requires_approval
    /\ ~current_plan[Selected].approved

\* C3. Permission halt: when execute_plan selects a task that requires
\* approval and is not approved, the run ends at once without any dispatch;
\* the task stays Pending with error unset and retry_count unchanged, the
\* session error slot stays unset, and once approved the task is selected
\* again and passes the gate.
C3_PermissionHalt ==
    [][SelectsUnapproved =>
          LET k == Selected
              after == set_approved(current_plan', current_plan[k].id)
          IN /\ pc' = "respond"
             /\ Len(current_plan') = Len(current_plan)
             /\ \A i \in 1..Len(current_plan) :
                   /\ current_plan'[i].dispatches = current_plan[i].dispatches
                   /\ current_plan'[i].status = current_plan[i].status
             /\ completed_tasks' = completed_tasks
             /\ current_plan'[k].status = "pending"
             /\ current_plan'[k].error = None
             /\ current_plan'[k].retry_count = current_plan[k].retry_count
             /\ error' = None
             /\ get_next_task(after, completed_tasks') = k
             /\ ~NeedsApproval(after[k])]_vars

\* C3 witness: a run has halted on an unapproved task while a later task of
\* the plan, independent and approved, was eligible and was not dispatched.
C3_Witness ==
    /\ pc = "respond"
    /\ run_end = "awaiting_approval"
    /\ \E i \in 1..Len(current_plan) :
          /\ current_plan[i].id # cur
          /\ i > IndexOf(current_plan, cur)
          /\ IsEligible(current_plan, completed_tasks, i)
          /\ current_plan[i].approved
          /\ current_plan[i].dispatches = 0

\* C4. Deny then resume: after deny(task_id) succeeds the task is neither in
\* the active plan nor in the completed list, and is never dispatched again.
C4_DenyThenResume ==
    \A d \in denied :
        /\ \A t \in PlanTasks : <<t.gen, t.id>> # d
        /\ \A t \in CompletedTasks : <<t.gen, t.id>> # d

\* C5 as claimed: when a continue_execution() call ends, every approved task
\* has been dispatched by it (none is left undispatched in the active plan).
C5_ApproveThenResume ==
    (pc = "respond" /\ caller = "continue") =>
        \A t \in PlanTasks : t.approved => t.dispatches >= 1

\* C5 as amended: an approved task is dispatched at most once in total; once
\* its backend has succeeded it is in the completed list, Completed, and a
\* dispatched task never returns to Pending; a continue_execution() call
\* leaves an approved task undispatched only when the run ended before
\* selecting it: another, unapproved task halted the run, the loop stopped
\* (error slot set, iteration ceiling, High/Critical failure, PermissionError
\* of a backend), or the task was marked Blocked.
C5_ApprovedExecutedAtMostOnce ==
    /\ \A t \in AllTasks : t.dispatches <= 1
    /\ \A t \in CompletedTasks :
          t.dispatches = 1 /\ t.status = "completed" /\ t.outcome = "ok"
    /\ \A t \in PlanTasks :
          /\ t.outcome # "ok"
          /\ t.dispatches = 1 => t.status \in {"in_progress", "failed"}
    /\ (pc = "respond" /\ caller = "continue") =>
          \A t \in PlanTasks :
              (t.approved /\ t.dispatches = 0) =>
                 \/ t.status = "blocked"
                 \/ /\ t.status = "pending"
                    /\ run_end \in {"awaiting_approval", "stopped",
                                    "critical_task_failed", "permission_error"}
                    /\ run_end = "awaiting_approval" => cur # t.id

\* C5 witness: a task that needed approval was approved, dispatched once and
\* is in the completed list.
C5_Witness ==
    \E t \in CompletedTasks :
        t.requires_approval /\ t.approved /\ t.dispatches = 1

\* the tasks whose approved flag is set, by plan and id
ApprovedTasks == {<<t.gen, t.id>> : t \in {x \in AllTasks : x.approved}}

\* the step is a successful approve(tid): it returned "approved" for tid,
\* found a pending entry for tid and appended it, decided Approve, to history
ApproveSucceeds(tid) ==
    /\ ret' = ReturnedFor("approved", tid)
    /\ HasPending(pending_approvals, tid)
    /\ Len(audit_history') = Len(audit_history) + 1
    /\ audit_history'[Len(audit_history')].task_id = tid
    /\ audit_history'[Len(audit_history')].decision = "approve"

\* C6. A task's approved flag is true only if an approve call for its id
\* succeeded earlier and is in the audit history with decision Approve; the
\* flag is set by no step other than a successful approve of that id.
C6_ApprovedOnlyByApproval ==
    /\ [](\A t \in AllTasks : t.approved => ApprovedEarlier(t.id))
    /\ [][\A x \in ApprovedTasks' \ ApprovedTasks : ApproveSucceeds(x[2])]_vars

\* C6 witness: a task of the active plan has been approved.
C6_Witness == \E t \in PlanTasks : t.approved

\* C7. At most one pending approval per task id.
C7_OnePendingPerTask ==
    \A e1, e2 \in pending_approvals : e1.task_id = e2.task_id => e1 = e2

\* C7 witness: approval was requested twice for one task id with no decision
\* on either request, and the ledger holds one entry for that id.
C7_Witness ==
    \E r1, r2 \in requests :
        /\ r1[2] = r2[2]
        /\ r1[1] # r2[1]
        /\ \A h \in HistoryEntries : h.id \notin {r1[1], r2[1]}
        /\ Cardinality({e \in pending_approvals : e.task_id = r1[2]}) = 1

\* C8. A second request for a task id that has a pending entry does not
\* lose the existing entry: every request ever created is still pending or
\* is in the history with a decision.
C8_RequestNotLost ==
    \A r \in requests :
        \/ \E e \in pending_approvals : e.id = r[1] /\ e.task_id = r[2]
        \/ \E h \in HistoryEntries :
              h.id = r[1] /\ h.task_id = r[2] /\ h.decision # None

\* the step is an approve or deny call for tid (both name tid in what they
\* return)
ApproveOrDenyCalled(tid) ==
    /\ pc = "idle"
    /\ ret'.task_id = tid
    /\ ret'.kind \in {"approved", "denied", "not_found"}

\* C9. approve and deny for a task id without pending entry return not-found
\* and change neither ledger, nor the plan, the completed list or any flag.
C9_UnknownIdNoEffect ==
    [][\A tid \in TaskIdInputs :
          (ApproveOrDenyCalled(tid) /\ ~HasPending(pending_approvals, tid)) =>
              /\ ret'.kind = "not_found"
              /\ pending_approvals' = pending_approvals
              /\ audit_history' = audit_history
              /\ current_plan' = current_plan
              /\ completed_tasks' = completed_tasks
              /\ ApprovedTasks' = ApprovedTasks]_vars

\* C9 witness: not-found was returned for a task id that had been approved
\* or denied before (its entry is in the history).
C9_Witness ==
    /\ ret.kind = "not_found"
    /\ \E h \in HistoryEntries : h.task_id = ret.task_id
    /\ current_plan # <<>>

\* C10. approve and deny for a task id with a pending entry remove exactly
\* that entry from pending, stamp it with the decision and a decision
\* timestamp, append it to history as the last element and return success.
C10_ResolveMovesEntry ==
    [][\A tid \in TaskIdInputs :
          (ApproveOrDenyCalled(tid) /\ HasPending(pending_approvals, tid)) =>
              LET e == PendingOf(pending_approvals, tid)
                  h == audit_history'[Len(audit_history')]
              IN /\ ret'.kind \in {"approved", "denied"}
                 /\ pending_approvals' = pending_approvals \ {e}
                 /\ Cardinality(pending_approvals') =
                       Cardinality(pending_approvals) - 1
                 /\ Len(audit_history') = Len(audit_history) + 1
                 /\ SubSeq(audit_history', 1, Len(audit_history)) = audit_history
                 /\ h.decision = (IF ret'.kind = "approved" THEN "approve" ELSE "deny")
                 /\ h.decision_timestamp # NoTimestamp
                 /\ h.decision_timestamp[1] >= e.timestamp
                 /\ [h EXCEPT !.decision = None,
                              !.decision_timestamp = NoTimestamp] = e]_vars

\* C10 witness: an approval and a denial have both been recorded, while
\* another entry is still pending.
C10_Witness ==
    /\ \E h \in HistoryEntries : h.decision = "approve"
    /\ \E h \in HistoryEntries : h.decision = "deny"
    /\ pending_approvals # {}

\* C11. Approving does not execute: a successful approve(task_id) changes
\* only the audit ledgers and the approved flag of the task with that id; no
\* handler is started (no backend is invoked), and the statuses of the tasks,
\* the membership of the active plan, the completed list, the tool-output
\* table, the iteration counter and the error slot are unchanged.
C11_ApproveDoesNotExecute ==
    [][\A tid \in TaskIdInputs :
          ApproveSucceeds(tid) =>
              /\ pc' = "idle"
              /\ cur' = cur
              /\ completed_tasks' = completed_tasks
              /\ tool_outputs' = tool_outputs
              /\ iteration_count' = iteration_count
              /\ error' = error
              /\ Len(current_plan') = Len(current_plan)
              /\ \A i \in 1..Len(current_plan) :
                    /\ [current_plan'[i] EXCEPT !.approved = current_plan[i].approved]
                          = current_plan[i]
                    /\ current_plan'[i].approved # current_plan[i].approved =>
                          current_plan[i].id = tid]_vars

\* C11 witness: approve has just succeeded for a task of the active plan; the
\* task is approved, still Pending and has never been dispatched.
C11_Witness ==
    /\ pc = "idle"
    /\ ret.kind = "approved"
    /\ \E t \in PlanTasks :
          /\ t.id = ret.task_id
          /\ t.approved
          /\ t.status = "pending"
          /\ t.dispatches = 0

\* execute_task has returned or raised for the task: no backend call of it
\* is under way
ProcessingEnded(t) == ~(pc = "exec" /\ cur = t.id)

\* every backend call made for the task failed, and there was one at least
FailedEveryCall(t) == t.calls >= 1 /\ t.retry_count = t.calls

\* C12. Retry determinism: for every configured max_retries >= 0, a
\* dispatched task whose backend fails on every call is invoked exactly
\* max_retries times and ends Failed with error set and
\* retry_count = max_retries; retry_count never exceeds max_retries.
C12_RetryDeterminism ==
    \A t \in PlanTasks :
        /\ t.retry_count <= max_retries
        /\ (FailedEveryCall(t) /\ ProcessingEnded(t)) =>
              /\ t.calls = max_retries
              /\ t.retry_count = max_retries
              /\ t.status = "failed"
              /\ t.error # None

\* the step moves a task to the completed list
CompletesNow == pc = "exec" /\ Len(completed_tasks') = Len(completed_tasks) + 1

\* the step marks a task of the active plan Failed
FailsNow ==
    /\ pc = "exec"
    /\ Len(current_plan') = Len(current_plan)
    /\ \E i \in 1..Len(current_plan) :
          current_plan[i].status # "failed" /\ current_plan'[i].status = "failed"

\* C13. Iteration accounting: every task whose processing ends in Completed
\* or in Failed adds exactly 1 to iteration_count, whatever its retries and
\* its risk level; a run halted on an unapproved task adds nothing.
C13_IterationAccounting ==
    [][/\ (CompletesNow \/ FailsNow) => iteration_count' = iteration_count + 1
       /\ SelectsUnapproved => iteration_count' = iteration_count]_vars

\* execute_plan is at the head of its loop, enters it, and get_next_task
\* finds no Pending task whose dependencies are all completed
NoEligibleTask ==
    /\ pc = "run"
    /\ current_plan # <<>>
    /\ should_continue
    /\ Selected = 0

\* C14. Blocked rule: when execute_plan finds no eligible task, every Pending
\* task of the active plan becomes Blocked, every other task (a Failed one in
\* particular) is left as it is, nothing is dispatched and the run ends; a
\* Blocked task is never dispatched.
C14_BlockedRule ==
    /\ [](\A t \in PlanTasks : t.status = "blocked" => t.dispatches = 0 /\ t.calls = 0)
    /\ [][NoEligibleTask =>
            /\ pc' = "respond"
            /\ Len(current_plan') = Len(current_plan)
            /\ \A i \in 1..Len(current_plan) :
                  current_plan'[i] =
                     IF current_plan[i].status = "pending"
                     THEN [current_plan[i] EXCEPT !.status = "blocked"]
                     ELSE current_plan[i]
            /\ completed_tasks' = completed_tasks
            /\ tool_outputs' = tool_outputs
            /\ iteration_count' = iteration_count]_vars

\* C14 witness: a run ended because no task was eligible; a task that
\* depends on a Failed task is Blocked and the Failed task is still Failed.
C14_Witness ==
    /\ pc = "respond"
    /\ run_end = "no_eligible_task"
    /\ \E t, f \in PlanTasks :
          /\ t.status = "blocked"
          /\ f.status = "failed"
          /\ \E j \in 1..Len(t.dependencies) : t.dependencies[j] = f.id

TotalOrder == <<"low", "medium", "high", "critical">>

AtLeast(a, b) ==
    \E i, j \in 1..Len(TotalOrder) :
        TotalOrder[i] = a /\ TotalOrder[j] = b /\ i >= j

\* assess_task_risk / requires_approval has returned for probe_task
Assessed == assessment.assessed # <<>>
Decided == assessment.required # <<>>

\* C16. Monotonic escalation: for every tool, tool_input and nominal
\* risk_level, the level assess_task_risk returns is at least the nominal
\* level in the order Low < Medium < High < Critical.
C16_MonotonicEscalation ==
    Assessed => AtLeast(assessment.assessed[1], probe_task.risk_level)

\* C17. For every task and every threshold, requires_approval(task) is true
\* if and only if the level assess_task_risk(task) returns is at least the
\* threshold in the total order.
C17_ThresholdRule ==
    (Assessed /\ Decided) =>
        (assessment.required[1] <=>
            AtLeast(assessment.assessed[1], approval_threshold))

\* C17 witness: both calls have returned for a task whose assessed level is
\* the threshold itself, above its nominal level, and approval is required.
C17_Witness ==
    /\ Assessed
    /\ Decided
    /\ assessment.assessed[1] = approval_threshold
    /\ assessment.assessed[1] # probe_task.risk_level
    /\ AtLeast(assessment.assessed[1], probe_task.risk_level)
    /\ assessment.required[1]

\* a task with nominal risk_level Critical requires approval at thresholds
\* High and Critical
CriticalAlwaysGated ==
    (Decided /\ probe_task.risk_level = "critical"
             /\ approval_threshold \in {"high", "critical"}) =>
        assessment.required[1]

\* a task with nominal risk_level Low does not require approval at any
\* threshold above Low
LowNeverGated ==
    (Decided /\ probe_task.risk_level = "low"
             /\ approval_threshold \in {"medium", "high", "critical"}) =>
        ~assessment.required[1]

\* C18. Approval gate correctness: for every tool and tool_input, a task
\* with nominal risk_level Critical requires approval at thresholds High and
\* Critical, and a task with nominal risk_level Low does not require approval
\* at any threshold above Low.
C18_GateCorrectness == CriticalAlwaysGated /\ LowNeverGated

\* C19. Tool floor: assess_task_risk returns High or Critical for every
\* code_execution task, and the nominal level for a document_search task.
C19_ToolFloor ==
    Assessed =>
        /\ probe_task.tool = "code_execution" =>
              assessment.assessed[1] \in {"high", "critical"}
        /\ probe_task.tool = "document_search" =>
              assessment.assessed[1] = probe_task.risk_level

\* the dependency relation of a task list, on ids: <<a, b>> when the task
\* with id a names b in its dependencies
DependsOn(tasks) ==
    UNION {{<<tasks[i].id, tasks[i].dependencies[j]>> :
               j \in 1..Len(tasks[i].dependencies)} : i \in 1..Len(tasks)}

\* R with the pairs obtained by following two pairs of R
Compose(R) ==
    R \cup {<<x[1][1], x[2][2]>> : x \in {y \in R \X R : y[1][2] = y[2][1]}}

RECURSIVE Closure(_, _)
Closure(R, k) == IF k = 0 THEN R ELSE Closure(Compose(R), k - 1)

\* <<a, b>> when a depends on b directly or through other tasks
Reaches(tasks) == Closure(DependsOn(tasks), Len(tasks))

OnCycle(tasks, a) == <<a, a>> \in Reaches(tasks)

HasDependencyCycle(tasks) == \E a \in IdsOf(tasks) : OnCycle(tasks, a)

\* _validate_plan has returned or raised for the candidate
Validated == validation # NoValidation

\* C20. Acyclicity: for every candidate plan with registered tools and
\* resolving dependency ids, _validate_plan raises if and only if the
\* dependency graph has a cycle (a self-dependency and a cycle reached through
\* a shared sub-dependency included); every acyclic plan, diamonds included,
\* is accepted.
C20_Acyclicity ==
    Validated =>
        (validation[1].outcome = "rejected" <=> HasDependencyCycle(candidate))

\* C20 witness: a plan was rejected whose cycle runs through a task that two
\* other tasks, neither of them on a cycle, both depend on.
C20_Witness ==
    /\ Validated
    /\ validation[1].outcome = "rejected"
    /\ \E a, b, c \in IdsOf(candidate) :
          /\ a # b
          /\ <<a, c>> \in DependsOn(candidate)
          /\ <<b, c>> \in DependsOn(candidate)
          /\ OnCycle(candidate, c)
          /\ ~OnCycle(candidate, a)
          /\ ~OnCycle(candidate, b)

\* a diamond: two tasks depend on one task and a fourth depends on both
Diamond(tasks) ==
    \E a, b, c, e \in IdsOf(tasks) :
        /\ b # c
        /\ {<<a, b>>, <<a, c>>, <<b, e>>, <<c, e>>} \subseteq DependsOn(tasks)

\* an acyclic diamond has been accepted
DiamondAccepted ==
    Validated /\ validation[1].outcome = "accepted" /\ Diamond(candidate)

\* C21. When _validate_plan rejects a plan for a dependency cycle, the task
\* id named in the error is a task on a dependency cycle: it reaches itself
\* through dependencies.
C21_NamedTaskOnCycle ==
    (Validated /\ validation[1].outcome = "rejected") =>
        OnCycle(candidate, validation[1].named)

\* the step is a process_user_message call
ProcessCalled == pc = "idle" /\ turn' = turn + 1

\* a candidate the validator must accept: registered tools, dependencies
\* among the candidate's own ids, no dependency cycle
WellFormed(tasks) ==
    /\ \A i \in 1..Len(tasks) : tasks[i].tool \in valid_tools
    /\ \A p \in DependsOn(tasks) : p[2] \in IdsOf(tasks)
    /\ ~HasDependencyCycle(tasks)

\* the catalogue plans as _parse_plan builds them in the turn being made
Candidates == {ParsePlan(PlanCatalog[n], turn + 1) : n \in 1..NumPlans}

\* the turn failed: the error is returned to the caller and recorded, and
\* the active plan, the completed list, the tool outputs and both ledgers
\* are as before; no handler position is left open (no backend call)
RejectedInFull ==
    /\ ret'.kind = "error"
    /\ error' # None
    /\ pc' = "idle"
    /\ current_plan' = current_plan
    /\ completed_tasks' = completed_tasks
    /\ tool_outputs' = tool_outputs
    /\ pending_approvals' = pending_approvals
    /\ audit_history' = audit_history

\* C22. Rejection in full: a process_user_message call whose candidate plan
\* is unparseable, names an unregistered tool, has a dangling or a cyclic
\* dependency fails, surfaces the failure and adopts nothing; a call adopts a
\* plan only when it is a whole well-formed candidate.
C22_RejectionInFull ==
    [][ProcessCalled =>
          \/ ret'.kind = "blocked" /\ current_plan' = current_plan
          \/ RejectedInFull
          \/ /\ ret'.kind # "error"
             /\ current_plan' \in {c \in Candidates : WellFormed(c)}
          ]_vars

\* C22 witness: the second turn of a session failed at plan creation; the
\* plan of the first turn and its approval requests are still in place.
C22_Witness ==
    /\ pc = "idle"
    /\ turn = 2
    /\ ret.kind = "error"
    /\ error # None
    /\ current_plan # <<>>
    /\ \A t \in PlanTasks : t.gen = 1
    /\ pending_approvals # {}

\* the process_user_message step adopts a new plan
AdoptsPlan == ProcessCalled /\ current_plan' \in Candidates

\* the Risk Policy says at least one task of the adopted plan needs approval
SomeTaskNeedsApproval == high_risk_tasks(current_plan', approval_threshold) # <<>>

\* the Executor is not run: the turn ends with an approval request, every
\* task of the plan Pending and never dispatched, and a pending entry made
\* in this turn for each task that needs approval
TurnPaused ==
    /\ pc' = "idle"
    /\ ret'.kind = "approval_request"
    /\ completed_tasks' = completed_tasks
    /\ tool_outputs' = tool_outputs
    /\ iteration_count' = iteration_count
    /\ \A i \in 1..Len(current_plan') :
          /\ current_plan'[i].status = "pending"
          /\ current_plan'[i].dispatches = 0
          /\ AuditorRequiresApproval(current_plan'[i], approval_threshold) =>
                \E e \in pending_approvals' :
                    /\ e.task_id = current_plan'[i].id
                    /\ e.gen = turn'
                    /\ e.decision = None

\* C23 as claimed: whenever the Risk Policy says a task of the new plan
\* needs approval, process_user_message does not run the Executor.
C23_ApprovalPausesTurn ==
    [][(AdoptsPlan /\ SomeTaskNeedsApproval) => TurnPaused]_vars

\* C23 as amended: the turn is paused when human approval is enabled
\* (Config.ENABLE_HUMAN_APPROVAL); when it is disabled the Executor is run
\* in that turn and no approval is requested.
C23_ApprovalPausesTurnWhenEnabled ==
    [][(AdoptsPlan /\ SomeTaskNeedsApproval) =>
          IF enable_human_approval THEN TurnPaused
          ELSE /\ pc' = "run"
               /\ pending_approvals' = pending_approvals
               /\ audit_history' = audit_history]_vars

\* C23 witness: a turn ended with an approval request for a plan of two
\* tasks that both need approval; both have a pending entry of this turn and
\* neither was dispatched.
C23_Witness ==
    /\ pc = "idle"
    /\ ret.kind = "approval_request"
    /\ Len(current_plan) = 2
    /\ \A t \in PlanTasks :
          /\ t.gen = turn
          /\ t.status = "pending"
          /\ t.dispatches = 0
          /\ AuditorRequiresApproval(t, approval_threshold)
          /\ \E e \in pending_approvals : e.task_id = t.id /\ e.gen = turn

\* the plan of the end-to-end scenario, created by the first turn
ScenarioPlan == ParsePlan(PlanCatalog[3], 1)

\* what the generator chose for a task
Nominal(t) ==
    [id |-> t.id, tool |-> t.tool, tool_input |-> t.tool_input,
     risk_level |-> t.risk_level, dependencies |-> t.dependencies]

\* the scenario is under way: threshold High, one turn so far, and the
\* session's tasks are tasks of the scenario's plan
InScenario ==
    /\ approval_threshold = "high"
    /\ turn = 1
    /\ AllTasks # {}
    /\ \A t \in AllTasks : \E i \in 1..Len(ScenarioPlan) :
          Nominal(t) = Nominal(ScenarioPlan[i])

\* the task has been handed to its backend at least once
Dispatched(tid) ==
    \/ \E t \in CompletedTasks : t.id = tid
    \/ \E t \in PlanTasks : t.id = tid /\ t.dispatches > 0

\* the turn that created the scenario's plan has ended
ScenarioTurnEnded == InScenario /\ pc = "idle"

\* the summary of the scenario's last run, after the denial
ScenarioSummary ==
    /\ InScenario
    /\ pc = "respond"
    /\ <<1, "task_2">> \in denied
    /\ \E t \in CompletedTasks : t.id = "task_1"

\* C24. End-to-end scenario (plan [task_1 file_read Low; task_2 bash_command
\* "rm -rf /tmp/x" Critical, depending on task_1], threshold High): when the
\* turn that created the plan ends task_1 has executed and task_2 is pending
\* approval until it is decided; deny("task_2") removes task_2; the summary of
\* the last run reports 1 completed, 0 failed, 0 remaining.
C24_EndToEnd ==
    /\ ScenarioTurnEnded =>
          /\ Dispatched("task_1")
          /\ (\A h \in HistoryEntries : h.task_id # "task_2") =>
                HasPending(pending_approvals, "task_2")
    /\ (InScenario /\ <<1, "task_2">> \in denied) =>
          \A t \in PlanTasks : t.id # "task_2"
    /\ ScenarioSummary =>
          /\ execution_summary[1].completed = 1
          /\ execution_summary[1].failed = 0
          /\ execution_summary[1].remaining = 0

\* the plan execute_plan is running: the latest plan the session adopted
RunGen ==
    IF current_plan # <<>> THEN current_plan[1].gen
    ELSE IF completed_tasks # <<>> THEN completed_tasks[Len(completed_tasks)].gen
    ELSE 0

\* the tasks of that plan that were not denied
RunTasks == {t \in AllTasks : t.gen = RunGen}

\* execute_plan has returned its summary
SummaryReturned == pc = "respond"

\* C27. Run summary: completed + failed + remaining is the number of tasks
\* of the plan being run that were not denied, completed counts only tasks of
\* that plan, results holds ids of that plan's completed tasks, and
\* failed_tasks lists Failed tasks of the plan with their error strings.
C27_RunSummary ==
    SummaryReturned =>
        LET s == execution_summary[1]
        IN /\ s.completed + s.failed + s.remaining = Cardinality(RunTasks)
           /\ s.completed = Cardinality({t \in CompletedTasks : t.gen = RunGen})
           /\ \A tid \in DOMAIN s.results :
                 \E t \in CompletedTasks :
                    t.gen = RunGen /\ t.id = tid /\ t.result = s.results[tid]
           /\ \A i \in 1..Len(s.failed_tasks) :
                 \E t \in PlanTasks :
                    /\ t.id = s.failed_tasks[i].id
                    /\ t.status = "failed"
                    /\ t.error = s.failed_tasks[i].error
                    /\ t.error # None

\* the continuation predicate, read off the session's fields
ContinuationHolds ==
    /\ ~is_complete
    /\ error = None
    /\ iteration_count < MAX_ITERATIONS

\* the step hands a task to its backend (a first call or a retry)
HandsToBackend == pc' = "exec"

SessionReset == session_id' # session_id

\* C26. Session lifecycle: reset_session yields a new session id, an empty
\* plan, an empty completed list, iteration_count 0 and no error; no other
\* operation decreases iteration_count or clears a recorded error; and from a
\* state with the error set or the ceiling reached no task is handed to a
\* backend.
C26_SessionLifecycle ==
    [][/\ SessionReset =>
             /\ session_id' > session_id
             /\ current_plan' = <<>>
             /\ completed_tasks' = <<>>
             /\ iteration_count' = 0
             /\ error' = None
       /\ ~SessionReset =>
             /\ iteration_count' >= iteration_count
             /\ error # None => error' # None
       /\ (error # None \/ iteration_count >= MAX_ITERATIONS) =>
             ~HandsToBackend]_vars

\* C26 witness: the session was reset after its first turn had created
\* approval requests, and is as new.
C26_Witness ==
    /\ session_id = 1
    /\ turn = 1
    /\ pc = "idle"
    /\ ret = NoReturn
    /\ requests # {}
    /\ current_plan = <<>>
    /\ completed_tasks = <<>>
    /\ iteration_count = 0
    /\ error = None

\* a value is recorded in the field
Recorded(v) == v # None

\* C28. Task record invariant: between operations a task has a result iff
\* its status is Completed and an error iff its status is Failed; a task that
\* failed some calls and succeeded on a retry is Completed with no error.
C28_TaskRecord ==
    pc = "idle" =>
        \A t \in AllTasks :
            /\ Recorded(t.result) <=> t.status = "completed"
            /\ Recorded(t.error) <=> t.status = "failed"

\* C28 witness: between operations, one task completed on a retry and another
\* task failed.
C28_Witness ==
    /\ pc = "idle"
    /\ \E t \in CompletedTasks :
          t.retry_count > 0 /\ Recorded(t.result) /\ ~Recorded(t.error)
    /\ \E t \in PlanTasks :
          t.status = "failed" /\ Recorded(t.error) /\ ~Recorded(t.result)

\* the two ledgers are disjoint, pending entries are undecided, history
\* entries are decided, and the history is in the order of the decisions
LedgersSeparate ==
    /\ \A e \in pending_approvals :
          /\ e.decision = None
          /\ e.decision_timestamp = NoTimestamp
          /\ \A h \in HistoryEntries : h.id # e.id
    /\ \A h \in HistoryEntries : h.decision \in {"approve", "deny"}
    /\ \A i, j \in 1..Len(audit_history) :
          i < j => audit_history[i].decision_timestamp[1]
                      < audit_history[j].decision_timestamp[1]

\* the step keeps every entry of the history where it is
HistoryKept ==
    /\ Len(audit_history') >= Len(audit_history)
    /\ \A i \in 1..Len(audit_history) : audit_history'[i] = audit_history[i]

\* C29. Audit ledgers: no entry is in both pending and history, history
\* entries carry a decision and pending entries none, and the history is
\* append-only and in the order the decisions were taken.
C29_AuditLedgers == []LedgersSeparate /\ [][HistoryKept]_vars

\* C29 witness: an approval and a denial are in the history, in that order,
\* while another request is pending.
C29_Witness ==
    /\ Len(audit_history) >= 2
    /\ audit_history[1].decision = "approve"
    /\ audit_history[2].decision = "deny"
    /\ pending_approvals # {}

\* the step is a handler call that sent audit events to the sink
MirrorsEvents == pc = "idle" /\ mirror_writes' # <<>>

\* a write of the last handler raised
MirrorFailed(writes) == \E i \in 1..Len(writes) : writes[i].outcome = "raises"

\* approve_task / deny_task did their work for the entry of the event w: it
\* left pending, went to the end of the history with its decision, and the
\* handler returned its success message
DecisionRecorded(w, decision, kind) ==
    \E e \in pending_approvals :
        /\ e.id = w.audit_id
        /\ pending_approvals' = pending_approvals \ {e}
        /\ audit_history' =
              Append(audit_history,
                     [e EXCEPT !.decision = decision,
                               !.decision_timestamp = Timestamp(clock + 1)])
        /\ ret' = ReturnedFor(kind, e.task_id)

\* request_approval did its work for every event of the handler: one pending
\* entry per flagged task of the new plan, the history as it was, and the
\* approval request returned
RequestsRecorded ==
    /\ Len(mirror_writes') =
          Len(high_risk_tasks(current_plan', approval_threshold))
    /\ \A i \in 1..Len(mirror_writes') :
          \E e \in pending_approvals' :
              /\ e.id = mirror_writes'[i].audit_id
              /\ e.task_id = mirror_writes'[i].task_id
              /\ e.decision = None
    /\ audit_history' = audit_history
    /\ ret' = Returned("approval_request")
    /\ error' = error

\* C30. Audit mirror failures are never fatal: whether the writes of the
\* audit events to the sink succeed or raise, request_approval, approve_task
\* and deny_task make the same changes to pending and history and the handler
\* returns the same outcome.
C30_MirrorNeverFatal ==
    [][MirrorsEvents =>
          LET w == mirror_writes'[1]
          IN CASE w.event_type = "approval_requested" -> RequestsRecorded
               [] w.event_type = "task_approved" ->
                      DecisionRecorded(w, "approve", "approved")
               [] w.event_type = "task_denied" ->
                      DecisionRecorded(w, "deny", "denied")]_vars

\* C30 witness: the write of a denial to the sink raised, and the denial is
\* the last entry of the history and was reported as done.
C30_Witness ==
    /\ pc = "idle"
    /\ Len(mirror_writes) = 1
    /\ mirror_writes[1].event_type = "task_denied"
    /\ MirrorFailed(mirror_writes)
    /\ ret.kind = "denied"
    /\ audit_history # <<>>
    /\ audit_history[Len(audit_history)].id = mirror_writes[1].audit_id
    /\ audit_history[Len(audit_history)].decision = "deny"
    /\ \A e \in pending_approvals : e.id # mirror_writes[1].audit_id

\* the content filter failed while checking the input of this turn
FilterFailed == ProcessCalled /\ ret'.reason = "validation_error"

\* the Plan Generator failed while creating the plan of this turn
GeneratorFailed == ProcessCalled /\ ret'.kind = "error"

\* a synthesized reply is appended to the message history
\* (add_message("assistant", response) precedes the return of the response)
ReplyAppended == ret'.kind = "response" /\ ret # ret'

\* C31. Collaborator errors: when the content filter or the Plan Generator
\* fails during process_user_message, the failure is recorded in the error
\* slot and the turn ends with no task dispatched, no plan adopted and no
\* synthesized reply appended.
C31_CollaboratorErrors ==
    [][(FilterFailed \/ GeneratorFailed) =>
          /\ error' # None
          /\ pc' = "idle"
          /\ current_plan' = current_plan
          /\ completed_tasks' = completed_tasks
          /\ ~ReplyAppended]_vars

\* the step is a retry: execute_task calls itself for the same task
Retries == pc = "exec" /\ pc' = "exec"

\* the sleeps taken for a task are retry_delay * 1, retry_delay * 2, ...
LinearSleeps(t) ==
    \A k \in 1..Len(t.sleeps) : t.sleeps[k] = RETRY_DELAY_SECONDS * k

\* one sleep before every attempt but the first, none after the last
SleepsBetweenAttempts(t) ==
    IF t.calls = 0 THEN t.sleeps = <<>>
    ELSE IF pc = "exec" /\ cur = t.id /\ t.status = "in_progress"
         THEN Len(t.sleeps) = t.calls
    ELSE Len(t.sleeps) = t.calls - 1

\* C32. Linear backoff: the sleep before the (k+1)-th attempt of a task is
\* retry_delay * k, for k = 1 .. max_retries - 1; a retry re-attempts the same
\* task with no other task dispatched in between; no sleep follows the last
\* failed attempt.
C32_LinearBackoff ==
    /\ [](\A t \in AllTasks :
             /\ LinearSleeps(t)
             /\ SleepsBetweenAttempts(t)
             /\ max_retries >= 1 => Len(t.sleeps) <= max_retries - 1
             /\ max_retries = 0 => t.sleeps = <<>>)
    /\ [][Retries =>
             /\ cur' = cur
             /\ \A i \in 1..Len(current_plan) :
                   current_plan[i].id # cur => current_plan'[i] = current_plan[i]
             /\ CurTask'.calls = CurTask.calls + 1
             /\ CurTask'.dispatches = CurTask.dispatches]_vars

\* C32 witness: a task failed three attempts; it slept retry_delay * 1 and
\* retry_delay * 2 between them and not after the last.
C32_Witness ==
    \E t \in PlanTasks :
        /\ t.status = "failed"
        /\ t.calls = 3
        /\ t.sleeps = <<RETRY_DELAY_SECONDS, 2 * RETRY_DELAY_SECONDS>>

\* the tasks a backend call is under way for, as their status says
InProgress == {t \in AllTasks : t.status = "in_progress"}

\* execute_plan has returned, or no handler is running
RunReturned == pc \in {"respond", "idle"}

\* C33. No parallel dispatch: at most one task is InProgress, and once
\* execute_plan has returned no task of the active plan or of the completed
\* list is InProgress.
C33_NoParallelDispatch ==
    /\ Cardinality(InProgress) <= 1
    /\ RunReturned => InProgress = {}

\* execute_plan halted on the gate of the selected task
HaltedOnApproval == pc = "respond" /\ run_end = "awaiting_approval"

\* between operations, a Pending task of the plan that the gate will stop
AwaitsApproval(t) == pc = "idle" /\ t.status = "pending" /\ NeedsApproval(t)

\* C34. No unapprovable halt: whenever execute_plan halts on an unapproved
\* task the pending ledger holds an entry for its id, and no task waits for
\* an approval that approve(task_id) can only answer with not-found.
C34_NoUnapprovableHalt ==
    /\ HaltedOnApproval => HasPending(pending_approvals, cur)
    /\ \A t \in PlanTasks :
          AwaitsApproval(t) => HasPending(pending_approvals, t.id)

\* execute_plan is running
Running == pc \in {"run", "exec"}

\* the number of Pending tasks of the active plan
PendingCount ==
    Cardinality({i \in 1..Len(current_plan) : current_plan[i].status = "pending"})

\* a pass of execute_plan's loop begins and does not end the run
LoopPass == pc = "run" /\ pc' # "respond"

\* C35. Termination: execute_plan terminates; each loop pass ends the run or
\* strictly decreases the number of Pending tasks of the active plan (and no
\* step of a run increases it); the retries of a task stop after at most
\* max_retries attempts.
C35_Termination ==
    /\ Running ~> RunReturned
    /\ [][/\ LoopPass => PendingCount' < PendingCount
          /\ Running => PendingCount' <= PendingCount]_vars
    /\ [](\A t \in AllTasks : t.calls <= max_retries)

\* two records of the same task of the same plan
SameTask(a, b) == a.id = b.id /\ a.gen = b.gen

\* no task and no task id is in both lists
ListsDisjoint ==
    /\ \A a \in PlanTasks, b \in CompletedTasks : ~SameTask(a, b)
    /\ IdsOf(current_plan) \cap IdsOf(completed_tasks) = {}

\* C36. Collection membership: no task and no task id is in both the active
\* plan and the completed list; every task of the completed list is Completed
\* and no task of the active plan is; a task is never twice in a list.
C36_CollectionMembership ==
    /\ ListsDisjoint
    /\ \A t \in CompletedTasks : t.status = "completed"
    /\ \A t \in PlanTasks : t.status # "completed"
    /\ \A i, j \in 1..Len(current_plan) :
          SameTask(current_plan[i], current_plan[j]) => i = j
    /\ \A i, j \in 1..Len(completed_tasks) :
          SameTask(completed_tasks[i], completed_tasks[j]) => i = j

\* the task's status is Failed or Blocked
Terminal(t) == t.status \in {"failed", "blocked"}

\* the step leaves the task in the plan with its status, retry_count, error
\* and dispatch record as they are
StaysAsItIs(t) ==
    \E u \in PlanTasks' :
        /\ SameTask(t, u)
        /\ u.status = t.status
        /\ u.retry_count = t.retry_count
        /\ u.error = t.error
        /\ u.dispatches = t.dispatches
        /\ u.calls = t.calls

\* C37. Failed and Blocked are terminal within a plan: no step of
\* execute_plan dispatches a Failed or Blocked task or changes its status,
\* retry_count or error, and approve and continue_execution leave them as
\* they are; such a task leaves the plan only by deny, a new plan or a reset.
C37_TerminalStatuses ==
    [][\A t \in PlanTasks :
          Terminal(t) =>
             \/ StaysAsItIs(t)
             \/ /\ pc = "idle"
                /\ \/ ProcessCalled
                   \/ SessionReset
                   \/ ret'.kind = "denied" /\ ret'.task_id = t.id]_vars

\* C37 witness: a task was Blocked, then approved, and a later
\* continue_execution run returned without dispatching it.
C37_Witness ==
    /\ pc = "respond"
    /\ caller = "continue"
    /\ \E t \in PlanTasks :
          /\ t.status = "blocked"
          /\ t.approved
          /\ t.dispatches = 0

\* C38. Ledger/plan consistency: every entry of the pending-approval ledger
\* refers to a task of the active plan that is Pending and not approved.
C38_LedgerPlanConsistency ==
    \A e \in pending_approvals :
        \E t \in PlanTasks :
            /\ t.id = e.task_id
            /\ t.status = "pending"
            /\ ~t.approved

\* the ids of the tasks of the active plan that ended Failed, or were denied
\* while they were in the plan
BrokenIds ==
    {t.id : t \in {u \in PlanTasks : u.status = "failed"}}
        \cup {d[2] : d \in {x \in denied :
                  /\ x[1] = RunGen
                  /\ \A t \in CompletedTasks : ~(t.gen = x[1] /\ t.id = x[2])}}

\* the task depends, directly or through other tasks, on a Failed or denied one
DependsOnBroken(tid) ==
    \E b \in BrokenIds : <<tid, b>> \in Reaches(current_plan)

\* the step hands a newly selected task to its backend
DispatchesNow == pc = "run" /\ pc' = "exec"

\* the step is a loop pass in which get_next_task finds nothing
FindsNoEligible == pc = "run" /\ run_end' = "no_eligible_task"

\* C39. Broken dependencies: a task that depends, directly or transitively,
\* on a denied or Failed task is never dispatched, and the run that finds no
\* eligible task leaves it Blocked.
C39_BrokenDependencies ==
    [][/\ DispatchesNow => ~DependsOnBroken(cur')
       /\ FindsNoEligible =>
             \A t \in PlanTasks' :
                 DependsOnBroken(t.id) => t.status # "pending"]_vars

====
